---- MODULE Spec2Model ----
(***************************************************************************)
(* Model of the historical data synchronisation of FutuTrade               *)
(* (src/engines/trading_engine.py): update_1M_data and update_DW_data,     *)
(* the remote request_history_kline source they page through, and the      *)
(* partition files they write through save_stock_df_to_file; and of the     *)
(* trading entry points cur_kline_evaluate and get_account_info with the   *)
(* account unlock they start with; and of the paged stock filter query of  *)
(* get_filtered_turnover_stocks.                                           *)
(***************************************************************************)
EXTENDS Integers, Sequences, FiniteSets, TLC

\* ---------------------------------------------------------------- bounds
MaxPages == 2         \* pages of one remote page stream
MaxFails == 2         \* failures in a row of one remote request
MaxSaveFails == 1     \* failed partition saves during one call
MaxLookbackDays == 1  \* round(365 * years) of update_1M_data, in days
MaxDefaultDays == 1   \* default_days of update_1M_data
MaxYears == 2         \* years of update_DW_data
MaxStocks == 2        \* length of the stock_list of cur_kline_evaluate
MaxCount == 401       \* stocks that pass the filter of get_filtered_turnover_stocks

\* ------------------------------------------------------ program constants
DaysPerYear == 365    \* timedelta(days=round(365 * years)), timedelta(days=i * 365)
ForceYears == 11      \* range(0, 11 if force_update else ...)
RetrySleep == 10      \* time.sleep(1), in tenths of a second
YearSleep == 6        \* time.sleep(0.6)
EndSleep == 5         \* time.sleep(0.5)
DefaultDays == 30     \* default_days: int = 30
PageSize == 200       \* begin_index += 200
MinInterval == 5      \* "max. 60 requests per 30 seconds": one request per 0.5 s
GapCap == 20          \* elapsed pacing time is counted up to 2 s

None == "None"
NoKey == 0           \* page_req_key=None: the cursor that asks for the first page
RET_OK == "RET_OK"
REAL == "REAL"
SIMULATE == "SIMULATE"
RET_ERROR == "RET_ERROR"
K_DAY == "K_DAY"
K_WEEK == "K_WEEK"
K_1M == "K_1M"

\* ---------------------------------------------------------------- dates
\* A date is [y |-> year, doy |-> day of the year, from 1].
IsLeap(y) == (y % 4 = 0) /\ ((y % 100 # 0) \/ (y % 400 = 0))

DaysIn(y) == IF IsLeap(y) THEN 366 ELSE 365

\* d - timedelta(days=n)
RECURSIVE DateMinus(_, _)
DateMinus(d, n) ==
    IF n < d.doy THEN [y |-> d.y, doy |-> d.doy - n]
    ELSE DateMinus([y |-> d.y - 1, doy |-> DaysIn(d.y - 1)], n - d.doy)

NextDay(d) ==
    IF d.doy < DaysIn(d.y) THEN [y |-> d.y, doy |-> d.doy + 1]
    ELSE [y |-> d.y + 1, doy |-> 1]

DateLeq(a, b) == (a.y < b.y) \/ (a.y = b.y /\ a.doy <= b.doy)

\* pd.date_range(start_date, end_date, freq='d'): every day from start to end
RECURSIVE DateRange(_, _)
DateRange(s, e) ==
    IF DateLeq(s, e) THEN <<s>> \o DateRange(NextDay(s), e) ELSE <<>>

\* round(a / b) as Python rounds: to the nearest integer, a tie to the even one
Round(a, b) ==
    LET q == a \div b
        r == a % b
    IN  IF 2 * r < b THEN q
        ELSE IF 2 * r > b THEN q + 1
        ELSE IF q % 2 = 0 THEN q ELSE q + 1

\* The dates on which a sync is run: the last day of a leap year and the first
\* day of the year after it.
TodaySet == { [y |-> 2024, doy |-> 366], [y |-> 2025, doy |-> 1] }

\* ---------------------------------------------------------------- candles
\* A candle is [day |-> date of its time_key, rev |-> revision of its prices].
RECURSIVE SeqOfDays(_, _)
\* The candles of the days of range `days` that are in set `have`, in time order.
SeqOfDays(days, have) ==
    IF days = <<>> THEN <<>>
    ELSE (IF Head(days) \in have THEN <<Head(days)>> ELSE <<>>)
         \o SeqOfDays(Tail(days), have)

Range(s) == { s[k] : k \in 1..Len(s) }

RECURSIVE Concat(_)
Concat(ps) == IF ps = <<>> THEN <<>> ELSE Head(ps) \o Concat(Tail(ps))

RECURSIVE Splits(_, _)
\* Every way to serve `rows` as at most n pages, in order (a page may be empty).
Splits(rows, n) ==
    IF n <= 1 THEN { <<rows>> }
    ELSE { <<rows>> } \cup
         UNION { { <<SubSeq(rows, 1, j)>> \o rest :
                   rest \in Splits(SubSeq(rows, j + 1, Len(rows)), n - 1) } :
                 j \in 0..Len(rows) }

\* The rows the remote holds for the days `days`, at price revision rev.
Rows(days, have, rev) ==
    LET ds == SeqOfDays(days, have)
    IN  [k \in 1..Len(ds) |-> [day |-> ds[k], rev |-> rev]]

\* Every sorted row list the remote may hold for the days `days` at revision rev.
Datasets(days, rev) == { Rows(days, have, rev) : have \in SUBSET Range(days) }

\* ---------------------------------------------------------------- state
VARIABLES
    run,            \* number of sync calls started
    rev,            \* revision of the remote's forward-adjusted (QFQ) prices
    pc,             \* position of the running call
    args,           \* the call's arguments
    today,          \* datetime.today().date()
    start_date, end_date, date_range,   \* update_1M_data's window
    history_df,     \* accumulated rows
    page_req_key,   \* cursor of the next page (None: no more pages)
    idx,            \* position of the persistence loop in date_range
    i,              \* update_DW_data's loop variable
    remote,         \* page streams of the remote source, by stream key
    files,          \* the store: path -> rows of the partition file
    lastReq,        \* the last remote request of the call and its outcome
    fetched,        \* start dates requested by the call
    gap,            \* pacing time elapsed since the last remote request
    nfail,          \* failures in a row of the request being made
    saves,          \* save attempts of the call: path -> succeeded
    result,         \* how the call ended
    prev,           \* the store and result as the previous call left them
    trd_env,        \* self.trd_env
    unlock,         \* status trade_ctx.unlock_trade returned (None: not called)
    input_data,     \* symbols get_data_realtime has candles for
    evaluated,      \* symbols of stock_list the evaluation loop is through
    orders,         \* orders placed through trading_util, in order
    queries,        \* calls of trade_ctx.accinfo_query
    all_count,      \* stocks the remote's filter matches
    begin_index,    \* offset of the next get_stock_filter request
    output_list,    \* stock codes collected so far
    requested,      \* offsets get_stock_filter was requested at, in order
    retval          \* the list get_filtered_turnover_stocks returned

sync_vars == << run, rev, pc, args, today, start_date, end_date, date_range,
                history_df, page_req_key, idx, i, remote, files, lastReq,
                fetched, gap, nfail, saves, result, prev >>

trade_vars == << trd_env, unlock, input_data, evaluated, orders, queries >>

filter_vars == << all_count, begin_index, output_list, requested, retval >>

vars == << sync_vars, trade_vars, filter_vars >>

NoReq == [key |-> NoKey, ret |-> None, next |-> NoKey, rows |-> 0, gap |-> GapCap,
          iter |-> 0, first |-> TRUE]

NoPrev == [files |-> << >>, history_df |-> << >>, saves |-> << >>,
           date_range |-> << >>]

Init ==
    /\ run = 0
    /\ rev = 1
    /\ pc = "idle"
    /\ args = [op |-> None]
    /\ today \in TodaySet
    /\ start_date = today /\ end_date = today /\ date_range = << >>
    /\ history_df = << >>
    /\ page_req_key = NoKey
    /\ idx = 1
    /\ i = 0
    /\ remote = << >>
    /\ files = << >>
    /\ lastReq = NoReq
    /\ fetched = {}
    /\ gap = GapCap
    /\ nfail = 0
    /\ saves = << >>
    /\ result = None
    /\ prev = NoPrev
    /\ trd_env \in {REAL, SIMULATE}
    /\ unlock = None
    /\ input_data = {}
    /\ evaluated = 0
    /\ orders = << >>
    /\ queries = 0
    /\ all_count = 0
    /\ begin_index = 0
    /\ output_list = << >>
    /\ requested = << >>
    /\ retval = << >>

\* -------------------------------------------------------- remote source
\* The cursor the remote hands out with page k of an n-page stream.
NextKey(k, n) == IF k < n THEN k + 1 ELSE NoKey

\* The page a cursor asks for: None asks for the first page.
PageNo(key) == IF key = NoKey THEN 1 ELSE key

\* quote_ctx.request_history_kline: the responses the remote may give to a
\* request on page stream `pages` with cursor `key`. A failure carries no rows;
\* the cursor that comes with it is null or, on a request for a later page, the
\* cursor of the page after the one asked for.
Responses(pages, key) ==
    LET k == PageNo(key)
        n == Len(pages)
    IN  (IF k \in 1..n
         THEN { [ret |-> RET_OK, data |-> pages[k], key |-> NextKey(k, n)] }
         ELSE {})
        \cup
        (IF nfail < MaxFails
         THEN { [ret |-> RET_ERROR, data |-> << >>, key |-> g] :
                g \in IF key = NoKey THEN {NoKey} ELSE {NoKey, k + 1} }
         ELSE {})

\* A slip: the sleep is left out.
SleepSkipped(g, t) == g

\* time.sleep(t)
Sleep(g, t) == IF g + t > GapCap THEN GapCap ELSE g + t

\* ------------------------------------------------------------ the store
Path(tag, key) == [tag |-> tag, key |-> key]

\* DataProcessingInterface.save_stock_df_to_file(df, path) -> bool: writes df
\* as the file at path and reports whether the write succeeded.
Save(fs, path, df, ok) ==
    IF ok THEN [p \in DOMAIN fs \cup {path} |-> IF p = path THEN df ELSE fs[p]]
    ELSE fs

SaveOutcomes ==
    IF Cardinality({ p \in DOMAIN saves : ~saves[p] }) < MaxSaveFails
    THEN {TRUE, FALSE} ELSE {TRUE}

Record(sv, path, ok) ==
    [p \in DOMAIN sv \cup {path} |-> IF p = path THEN ok ELSE sv[p]]

\* A slip: a page without rows is taken as a failure.
SucceededNonEmpty(resp) == resp.ret = RET_OK /\ resp.data # << >>

\* Whether a response is taken as a success: ret == RET_OK
Succeeded(resp) == resp.ret = RET_OK

\* The record of a request: the cursor sent, what came back, the pacing time
\* that had elapsed since the request before it, the turn of the year loop, and
\* whether it is the first request of the call.
Req(key, resp, iter) ==
    [key |-> key, ret |-> resp.ret, next |-> resp.key, rows |-> Len(resp.data),
     gap |-> gap, iter |-> iter, first |-> (lastReq.ret = None)]

\* ------------------------------------------------------- update_1M_data
\* start_date of update_1M_data; years is the number num / den
Start1M(t, years, force_update, default_days) ==
    IF force_update
    THEN DateMinus(t, Round(DaysPerYear * years.num, years.den))
    ELSE DateMinus(t, default_days)

\* Strings are sequences of characters.
Digit(n) == << "0", "1", "2", "3", "4", "5", "6", "7", "8", "9" >>[n + 1]

\* n written with w digits, zero-padded.
RECURSIVE Pad(_, _)
Pad(n, w) == IF w = 0 THEN << >> ELSE Pad(n \div 10, w - 1) \o << Digit(n % 10) >>

MonthLengths(y) ==
    << 31, IF IsLeap(y) THEN 29 ELSE 28, 31, 30, 31, 30, 31, 31, 30, 31, 30, 31 >>

\* The month and the day of the month of day doy of year y, counting from
\* month m.
RECURSIVE MonthDay(_, _, _)
MonthDay(y, doy, m) ==
    IF doy <= MonthLengths(y)[m] THEN [m |-> m, d |-> doy]
    ELSE MonthDay(y, doy - MonthLengths(y)[m], m + 1)

\* strftime(DATETIME_FORMAT_DW): the year-month-day string of a date.
DateStr(d) ==
    LET md == MonthDay(d.y, d.doy, 1)
    IN  Pad(d.y, 4) \o << "-" >> \o Pad(md.m, 2) \o << "-" >> \o Pad(md.d, 2)

\* The time_key of a candle: its date, a blank, its time of day.
TimeKey(c) ==
    DateStr(c.day) \o << " ", "0", "9", ":", "3", "0", ":", "0", "0" >>

\* s has sub as a substring.
Contains(s, sub) ==
    \E k \in 0..(Len(s) - Len(sub)) : SubSeq(s, k + 1, k + Len(sub)) = sub

\* A slip: the time key is matched against the year and month of the day.
TimeKeyContainsMonth(c, input_date) ==
    Contains(TimeKey(c), SubSeq(DateStr(input_date), 1, 7))

\* The days a candle or a window of the calls made can be dated.
Calendar ==
    UNION { Range(DateRange(DateMinus(t, MaxLookbackDays + MaxDefaultDays + 1), t)) :
            t \in TodaySet }

\* Whether the time key of a candle of day a contains the string of day b,
\* worked out once for the days of the calendar.
KeyContains ==
    [a \in Calendar |->
       [b \in Calendar |-> Contains(TimeKey([day |-> a]), DateStr(b))]]

\* history_df['time_key'].str.contains(input_date)
TimeKeyContains(c, input_date) == KeyContains[c.day][input_date]

Slice(df, input_date) == SelectSeq(df, LAMBDA c : TimeKeyContains(c, input_date))

\* A slip: the page replaces the accumulated rows instead of extending them.
AccumulateOverwrite(df, data) == data

\* pd.concat([history_df, data], ignore_index=True)
Accumulate(df, data) == df \o data

\* A slip: the slice is appended to the rows the file already holds.
WrittenAppend(fs, path, output_df) ==
    (IF path \in DOMAIN fs THEN fs[path] ELSE << >>) \o output_df

\* The rows handed to save_stock_df_to_file for the partition at path: the
\* slice alone, whatever the store holds at that path.
Written(fs, path, output_df) == output_df

\* A slip: the retry goes on with the cursor that came back with the failure.
RetryKeyDrift(original_page_req_key, returned) == returned

\* The cursor the retry loop goes on with after a failed page request.
RetryKey(original_page_req_key, returned) == original_page_req_key

\* A slip: the page loop is left after any successful page.
ExhaustedAlways(key) == TRUE

\* Line 259: the page loop runs while page_req_key is not None.
Exhausted(key) == key = NoKey

\* A slip: a failed save ends the persistence loop.
AfterSaveStop(ok, k, n) == IF ok THEN k + 1 ELSE n + 1

\* Where the persistence loop goes on after a save.
AfterSave(ok, k, n) == k + 1

\* The calls of update_1M_data that are made: years is a number of 365ths, so
\* that round(365 * years) is a small number of days; the argument the call
\* does not read is held at its bound.
Calls1M ==
    { [op |-> "update_1M_data", years |-> [num |-> yn, den |-> DaysPerYear],
       force_update |-> TRUE, default_days |-> MaxDefaultDays, k_type |-> K_1M] :
      yn \in 0..MaxLookbackDays }
    \cup
    { [op |-> "update_1M_data", years |-> [num |-> MaxLookbackDays, den |-> DaysPerYear],
       force_update |-> FALSE, default_days |-> dd, k_type |-> K_1M] :
      dd \in 0..MaxDefaultDays }

\* What every call starts from: the locals of the method and the records kept
\* of it, with the store and the result of the call before it remembered.
Enter ==
    /\ run' = run + 1
    /\ history_df' = << >>
    /\ page_req_key' = NoKey
    /\ idx' = 1
    /\ i' = 0
    /\ lastReq' = NoReq
    /\ fetched' = {}
    /\ nfail' = 0
    /\ saves' = << >>
    /\ result' = None
    /\ prev' = [files |-> files, history_df |-> history_df, saves |-> saves,
                date_range |-> date_range]
    /\ UNCHANGED << today, files, gap >>
    /\ UNCHANGED << trade_vars, filter_vars >>

\* Lines 236-243: update_1M_data sets its window up; the remote holds some
\* rows for the days of the window and serves them as some pages.
Begin1M(a) ==
    LET s   == Start1M(today, a.years, a.force_update, a.default_days)
        rng == DateRange(s, today)
    IN  /\ args' = a
        /\ start_date' = s
        /\ end_date' = today
        /\ date_range' = rng
        /\ \E rows \in Datasets(rng, rev') : \E ps \in Splits(rows, MaxPages) :
               remote' = [k \in {"1M"} |-> ps]
        /\ pc' = "first"
        /\ Enter

\* The caller starts update_1M_data(stock_code, years, force_update,
\* default_days). The data sync never reads trd_env: its calls are made on
\* the engine that is set up for the SIMULATE environment.
Call1M ==
    /\ pc = "idle" /\ run = 0 /\ trd_env = SIMULATE
    /\ rev' = rev
    /\ \E a \in Calls1M : Begin1M(a)

\* The caller runs the same minute sync once more (the next refresh); the
\* remote may have re-adjusted its prices in between.
Recall1M ==
    /\ pc = "done" /\ run = 1
    /\ args.op = "update_1M_data"
    /\ rev' \in {rev, rev + 1}
    /\ Begin1M(args)

\* A slip: a failed first request falls through to the persistence loop.
OnFirstFailureFallThrough == "persist"

\* Lines 254-256: where a failed first request leaves the method (return).
OnFirstFailure == "done"

\* Lines 245-256: the first page, requested with no cursor.
FirstPage ==
    /\ pc = "first"
    /\ \E resp \in Responses(remote["1M"], NoKey) :
         /\ lastReq' = Req(NoKey, resp, 0)
         /\ IF Succeeded(resp)
            THEN /\ history_df' = Accumulate(history_df, resp.data)
                 /\ page_req_key' = resp.key
                 /\ pc' = IF Exhausted(resp.key) THEN "persist" ELSE "page"
                 /\ nfail' = 0
                 /\ UNCHANGED result
            ELSE /\ nfail' = nfail + 1
                 /\ pc' = OnFirstFailure
                 /\ result' = "aborted"
                 /\ page_req_key' = resp.key
                 /\ UNCHANGED history_df
    /\ fetched' = fetched \cup {start_date}
    /\ gap' = 0
    /\ UNCHANGED << run, rev, args, today, start_date, end_date, date_range, idx, i,
                    remote, files, saves, prev >>
    /\ UNCHANGED << trade_vars, filter_vars >>

\* Lines 259-277: one turn of the retry loop for the next page.
NextPage ==
    /\ pc = "page"
    /\ LET original_page_req_key == page_req_key
       IN  \E resp \in Responses(remote["1M"], page_req_key) :
             /\ lastReq' = Req(page_req_key, resp, 0)
             /\ IF Succeeded(resp)
                THEN /\ history_df' = Accumulate(history_df, resp.data)
                     /\ page_req_key' = resp.key
                     /\ pc' = IF Exhausted(resp.key) THEN "persist" ELSE "page"
                     /\ gap' = 0
                     /\ nfail' = 0
                ELSE /\ nfail' = nfail + 1
                     /\ page_req_key' = RetryKey(original_page_req_key, resp.key)
                     /\ gap' = Sleep(0, RetrySleep)
                     /\ UNCHANGED << history_df, pc >>
    /\ fetched' = fetched \cup {start_date}
    /\ UNCHANGED << run, rev, args, today, start_date, end_date, date_range, idx, i,
                    remote, files, saves, result, prev >>
    /\ UNCHANGED << trade_vars, filter_vars >>

\* Lines 279-283: one turn of the persistence loop.
SaveDay ==
    /\ pc = "persist"
    /\ idx <= Len(date_range)
    /\ LET input_date  == date_range[idx]
           output_path == Path("1M", input_date)
           output_df   == Slice(history_df, input_date)
       IN  \E ok \in SaveOutcomes :
             /\ files' = Save(files, output_path, Written(files, output_path, output_df), ok)
             /\ saves' = Record(saves, output_path, ok)
             /\ idx' = AfterSave(ok, idx, Len(date_range))
    /\ UNCHANGED << run, rev, pc, args, today, start_date, end_date, date_range,
                    history_df, page_req_key, i, remote, lastReq, fetched,
                    gap, nfail, result, prev >>
    /\ UNCHANGED << trade_vars, filter_vars >>

\* Line 284: the loop is over; time.sleep(0.5) and return.
Return1M ==
    /\ pc = "persist"
    /\ idx > Len(date_range)
    /\ gap' = Sleep(gap, EndSleep)
    /\ pc' = "done"
    /\ result' = "returned"
    /\ UNCHANGED << run, rev, args, today, start_date, end_date, date_range,
                    history_df, page_req_key, idx, i, remote, files, lastReq,
                    fetched, nfail, saves, prev >>
    /\ UNCHANGED << trade_vars, filter_vars >>

\* ------------------------------------------------------- update_DW_data
\* range(0, 11 if force_update else (years + 1))
Iterations(force_update, years) ==
    IF force_update THEN ForceYears ELSE years.num + 1

\* date((datetime.today() - timedelta(days=i * 365)).year, 1, 1)
YearStart(t, k) == [y |-> DateMinus(t, k * DaysPerYear).y, doy |-> 1]

\* A slip: every granularity is let through to the request.
SupportedAny(k_type) == TRUE

\* Lines 299-305: the granularities update_DW_data has an output path for.
Supported(k_type) == k_type \in {K_DAY, K_WEEK}

Tag(k_type) == IF k_type = K_DAY THEN "1D" ELSE "1W"

\* The page stream the remote serves for the year that starts at date s.
StreamOf(s) == IF s.y \in DOMAIN remote THEN remote[s.y] ELSE << << >> >>

RowsOfYear(rows, y) == SelectSeq(rows, LAMBDA c : c.day.y = y)

\* The days on which the remote has daily / weekly candles to serve: the day
\* of the sync and the day before it.
DataDays(t) == DateRange(DateMinus(t, 1), t)

\* The calls of update_DW_data that are made.
CallsDW ==
    { [op |-> "update_DW_data", years |-> [num |-> L, den |-> 1],
       force_update |-> FALSE, default_days |-> MaxDefaultDays, k_type |-> k] :
      L \in 0..MaxYears, k \in {K_DAY, K_WEEK, K_1M} }
    \cup
    { [op |-> "update_DW_data", years |-> [num |-> MaxYears, den |-> 1],
       force_update |-> TRUE, default_days |-> MaxDefaultDays, k_type |-> k] :
      k \in {K_DAY, K_WEEK, K_1M} }

\* update_DW_data is entered; the remote holds some rows for its latest days
\* and serves each year's rows as some pages.
BeginDW(a) ==
    LET days == DataDays(today)
        ys   == { d.y : d \in Range(days) }
    IN  /\ args' = a
        /\ \E rows \in Datasets(days, rev') :
             \E r \in [ys -> UNION { Splits(RowsOfYear(rows, y), MaxPages) : y \in ys }] :
               /\ \A y \in ys : r[y] \in Splits(RowsOfYear(rows, y), MaxPages)
               /\ remote' = r
        /\ pc' = "dw_iter"
        /\ start_date' = today /\ end_date' = today /\ date_range' = << >>
        /\ Enter

\* The caller starts update_DW_data(stock_code, years, force_update, k_type).
CallDW ==
    /\ pc = "idle" /\ run = 0 /\ trd_env = SIMULATE
    /\ rev' = rev
    /\ \E a \in CallsDW : BeginDW(a)

\* The caller runs the same current-year daily / weekly sync once more (the
\* next refresh; a backfill of earlier years is not repeated); the remote may
\* have re-adjusted its prices in between.
RecallDW ==
    /\ pc = "done" /\ run = 1
    /\ args.op = "update_DW_data" /\ ~args.force_update /\ args.years.num = 0
    /\ rev' \in {rev, rev + 1}
    /\ BeginDW(args)

\* Lines 294-308: the head of one turn of the year loop.
DWIter ==
    /\ pc = "dw_iter"
    /\ i < Iterations(args.force_update, args.years)
    /\ start_date' = YearStart(today, i)
    /\ IF Supported(args.k_type)
       THEN pc' = "dw_req" /\ UNCHANGED result
       ELSE pc' = "done" /\ result' = "False"
    /\ UNCHANGED << run, rev, args, today, end_date, date_range, history_df,
                    page_req_key, idx, i, remote, files, lastReq, fetched,
                    gap, nfail, saves, prev >>
    /\ UNCHANGED << trade_vars, filter_vars >>

\* Lines 309-324: one turn of the retry loop of the year's request.
DWRequest ==
    /\ pc = "dw_req"
    /\ LET output_path == Path(Tag(args.k_type), start_date.y)
       IN  \E resp \in Responses(StreamOf(start_date), NoKey) :
             /\ lastReq' = Req(NoKey, resp, i)
             /\ page_req_key' = resp.key
             /\ IF Succeeded(resp)
                THEN /\ \E ok \in SaveOutcomes :
                          /\ files' = Save(files, output_path, Written(files, output_path, resp.data), ok)
                          /\ saves' = Record(saves, output_path, ok)
                     /\ gap' = Sleep(0, YearSleep)
                     /\ i' = i + 1
                     /\ pc' = "dw_iter"
                     /\ nfail' = 0
                ELSE /\ nfail' = nfail + 1
                     /\ gap' = Sleep(0, RetrySleep)
                     /\ UNCHANGED << files, saves, i, pc >>
    /\ fetched' = fetched \cup {start_date}
    /\ UNCHANGED << run, rev, args, today, start_date, end_date, date_range,
                    history_df, idx, remote, result, prev >>
    /\ UNCHANGED << trade_vars, filter_vars >>

\* The year loop is over: the method returns.
ReturnDW ==
    /\ pc = "dw_iter"
    /\ i >= Iterations(args.force_update, args.years)
    /\ pc' = "done"
    /\ result' = "returned"
    /\ UNCHANGED << run, rev, args, today, start_date, end_date, date_range,
                    history_df, page_req_key, idx, i, remote, files, lastReq,
                    fetched, gap, nfail, saves, prev >>
    /\ UNCHANGED << trade_vars, filter_vars >>

\* ------------------------------------------------------------- trading
Stocks == {"HK.00001", "HK.00002"}

\* The stock lists of up to n symbols.
StockLists(n) == UNION { [1..len -> Stocks] : len \in 0..n }

\* What the strategy of each symbol answers to sell(stock_code) and
\* buy(stock_code).
StrategyMaps == [Stocks -> [sell : BOOLEAN, buy : BOOLEAN]]

\* Line 95: whether __unlock_trade calls trade_ctx.unlock_trade.
UnlockNeeded(env) == env = REAL

\* A slip: a failed unlock is let through.
UnlockFailedNever(ret) == FALSE

\* Lines 97-100: an unlock that did not return RET_OK raises.
UnlockFailed(ret) == ret # RET_OK

\* The variables of the data sync and of the stock filter, which no trading
\* call touches.
SyncIdle ==
    /\ UNCHANGED << rev, today, start_date, end_date, date_range, history_df,
                    page_req_key, idx, i, remote, files, lastReq, fetched, gap,
                    nfail, saves, prev >>
    /\ UNCHANGED filter_vars

\* The caller starts cur_kline_evaluate(stock_list, strategy_map).
CallEvaluate ==
    /\ pc = "idle" /\ run = 0
    /\ \E sl \in StockLists(MaxStocks) : \E sm \in StrategyMaps :
         args' = [op |-> "cur_kline_evaluate", stock_list |-> sl, strategy_map |-> sm]
    /\ run' = run + 1
    /\ pc' = "unlock"
    /\ UNCHANGED result
    /\ SyncIdle
    /\ UNCHANGED trade_vars

\* The caller starts get_account_info().
CallAccountInfo ==
    /\ pc = "idle" /\ run = 0
    /\ args' = [op |-> "get_account_info"]
    /\ run' = run + 1
    /\ pc' = "unlock"
    /\ UNCHANGED result
    /\ SyncIdle
    /\ UNCHANGED trade_vars

\* Lines 91-100: __unlock_trade, the first statement of both entry points.
UnlockTrade ==
    /\ pc = "unlock"
    /\ LET go == IF args.op = "get_account_info" THEN "query" ELSE "realtime"
       IN  IF UnlockNeeded(trd_env)
           THEN \E ret \in {RET_OK, RET_ERROR} :
                  /\ unlock' = ret
                  /\ IF UnlockFailed(ret)
                     THEN pc' = "done" /\ result' = "Exception"
                     ELSE pc' = go /\ UNCHANGED result
           ELSE pc' = go /\ UNCHANGED << unlock, result >>
    /\ UNCHANGED << run, args >>
    /\ SyncIdle
    /\ UNCHANGED << trd_env, input_data, evaluated, orders, queries >>

\* Lines 209-225: get_data_realtime asks get_cur_kline for every symbol of
\* the list and keeps the candles of those whose request returned RET_OK.
GetDataRealtime ==
    /\ pc = "realtime"
    /\ \E got \in SUBSET Range(args.stock_list) : input_data' = got
    /\ pc' = "evaluate"
    /\ UNCHANGED << run, args, result >>
    /\ SyncIdle
    /\ UNCHANGED << trd_env, unlock, evaluated, orders, queries >>

\* The orders one turn of the evaluation loop places for stock_code: the sell
\* decision, then the buy decision.
Placed(stock_code, strategy) ==
    (IF strategy.sell THEN << [side |-> "sell", code |-> stock_code] >> ELSE << >>)
    \o
    (IF strategy.buy THEN << [side |-> "buy", code |-> stock_code] >> ELSE << >>)

\* Lines 388-394: one turn of the evaluation loop; input_data[stock_code]
\* raises KeyError for a symbol get_data_realtime has no candles for.
EvaluateStock ==
    /\ pc = "evaluate"
    /\ evaluated < Len(args.stock_list)
    /\ LET stock_code == args.stock_list[evaluated + 1]
       IN  IF stock_code \in input_data
           THEN /\ orders' = orders \o Placed(stock_code, args.strategy_map[stock_code])
                /\ evaluated' = evaluated + 1
                /\ UNCHANGED << pc, result >>
           ELSE /\ pc' = "done" /\ result' = "KeyError"
                /\ UNCHANGED << orders, evaluated >>
    /\ UNCHANGED << run, args >>
    /\ SyncIdle
    /\ UNCHANGED << trd_env, unlock, input_data, queries >>

\* The evaluation loop is over: cur_kline_evaluate returns.
ReturnEvaluate ==
    /\ pc = "evaluate"
    /\ evaluated >= Len(args.stock_list)
    /\ pc' = "done" /\ result' = "returned"
    /\ UNCHANGED << run, args >>
    /\ SyncIdle
    /\ UNCHANGED trade_vars

\* Lines 177-197: the account query of get_account_info; the dictionary is
\* returned on RET_OK, an error is logged otherwise.
AccInfoQuery ==
    /\ pc = "query"
    /\ queries' = queries + 1
    /\ \E ret \in {RET_OK, RET_ERROR} :
         result' = IF ret = RET_OK THEN "account_info" ELSE None
    /\ pc' = "done"
    /\ UNCHANGED << run, args >>
    /\ SyncIdle
    /\ UNCHANGED << trd_env, unlock, input_data, evaluated, orders >>

NextTrade ==
    \/ CallEvaluate \/ CallAccountInfo \/ UnlockTrade \/ GetDataRealtime
    \/ EvaluateStock \/ ReturnEvaluate \/ AccInfoQuery

\* -------------------------------------------------------- stock filter
\* The smaller of two numbers.
Min(a, b) == IF a < b THEN a ELSE b

\* The items the remote's filter matches: the k-th has stock code k.
Matches(n) == [k \in 1..n |-> [stock_code |-> k]]

\* quote_ctx.get_stock_filter(..., begin=begin): on RET_OK the triple
\* (last_page, all_count, ret_list) with the up to 200 items from offset begin.
StockPage(n, begin) ==
    [last_page |-> begin + PageSize >= n,
     all_count |-> n,
     ret_list  |-> SubSeq(Matches(n), begin + 1, Min(begin + PageSize, n))]

\* [item.stock_code for item in ret_list]
Codes(ret_list) == [k \in 1..Len(ret_list) |-> ret_list[k].stock_code]

\* A slip: the codes collected before the failure are returned.
OnFilterErrorPartial(collected) == collected

\* Lines 166-167: what is returned when a page request fails: return []
OnFilterError(collected) == << >>

\* The caller starts get_filtered_turnover_stocks(); the remote's filter
\* matches some number of stocks.
CallFilter ==
    /\ pc = "idle" /\ run = 0 /\ trd_env = SIMULATE
    /\ args' = [op |-> "get_filtered_turnover_stocks"]
    /\ run' = run + 1
    /\ pc' = "filter"
    /\ all_count' \in 0..MaxCount
    /\ begin_index' = 0
    /\ output_list' = << >>
    /\ requested' = << >>
    /\ retval' = << >>
    /\ UNCHANGED << rev, today, start_date, end_date, date_range, history_df,
                    page_req_key, idx, i, remote, files, lastReq, fetched, gap,
                    nfail, saves, result, prev >>
    /\ UNCHANGED trade_vars

\* Lines 157-167: one turn of the page loop.
FilterPage ==
    /\ pc = "filter"
    /\ requested' = Append(requested, begin_index)
    /\ \E ret \in {RET_OK, RET_ERROR} :
         IF ret = RET_OK
         THEN LET ls == StockPage(all_count, begin_index)
              IN  /\ output_list' = output_list \o Codes(ls.ret_list)
                  /\ begin_index' = begin_index + PageSize
                  /\ IF begin_index' >= ls.all_count
                     THEN /\ pc' = "done" /\ result' = "returned"
                          /\ retval' = output_list'
                     ELSE UNCHANGED << pc, result, retval >>
         ELSE /\ retval' = OnFilterError(output_list)
              /\ pc' = "done" /\ result' = "error"
              /\ UNCHANGED << begin_index, output_list >>
    /\ UNCHANGED << run, rev, args, today, start_date, end_date, date_range,
                    history_df, page_req_key, idx, i, remote, files, lastReq,
                    fetched, gap, nfail, saves, prev, all_count >>
    /\ UNCHANGED trade_vars

NextFilter == CallFilter \/ FilterPage

\* The page loop is a plain loop of the one thread: a turn that can be taken
\* is taken.
SpecFilter == Init /\ [][NextFilter]_vars /\ WF_vars(FilterPage)

NextDW == CallDW \/ RecallDW \/ DWIter \/ DWRequest \/ ReturnDW

SpecDW == Init /\ [][NextDW]_vars

Next1M == Call1M \/ Recall1M \/ FirstPage \/ NextPage \/ SaveDay \/ Return1M

Spec1M == Init /\ [][Next1M]_vars

Next ==
    \/ Call1M \/ Recall1M \/ FirstPage \/ NextPage \/ SaveDay \/ Return1M
    \/ CallDW \/ RecallDW \/ DWIter \/ DWRequest \/ ReturnDW
    \/ CallEvaluate \/ CallAccountInfo \/ UnlockTrade \/ GetDataRealtime
    \/ EvaluateStock \/ ReturnEvaluate \/ AccInfoQuery
    \/ CallFilter \/ FilterPage

Spec == Init /\ [][Next]_vars

\* ================================================================ claims
Is1M == args.op = "update_1M_data"
IsDW == args.op = "update_DW_data"

\* The pages of the stream update_1M_data reads, and those up to page k.
Pages1M == remote["1M"]
UpTo(k) == Concat(SubSeq(Pages1M, 1, k))

\* C1. Cursor-preserving retry: after a failed page request the retry loop is
\* about to send the cursor of the failed attempt, not the one that came back
\* with the failure, and once a page has succeeded (after any number of
\* failures) the accumulated result holds the rows of the pages up to it
\* exactly once, in order.
C1_CursorPreservingRetry ==
    Is1M =>
      /\ (pc = "page" /\ lastReq.ret = RET_ERROR) =>
            /\ page_req_key = lastReq.key
            /\ history_df = UpTo(PageNo(lastReq.key) - 1)
      /\ (pc \in {"page", "persist"} /\ lastReq.ret = RET_OK) =>
            history_df = UpTo(PageNo(lastReq.key))

\* A page beyond the first has succeeded on a retry (it was sent after the
\* one-second backoff) and brought rows; persistence is about to start.
C1_Witness ==
    /\ Is1M /\ pc = "persist"
    /\ lastReq.ret = RET_OK /\ lastReq.key # NoKey
    /\ lastReq.gap = RetrySleep
    /\ lastReq.rows > 0
    /\ Len(history_df) >= 2

\* C2. Pagination completeness: each request after the first is about to carry
\* the cursor the previous page returned, and when persistence starts the
\* accumulated result is the concatenation of the rows of all N pages in page
\* order.
C2_PaginationComplete ==
    Is1M =>
      /\ (pc = "page" /\ lastReq.ret = RET_OK) =>
            /\ page_req_key = lastReq.next
            /\ page_req_key = PageNo(lastReq.key) + 1
      /\ (pc = "persist") =>
            /\ history_df = Concat(Pages1M)
            /\ lastReq.ret = RET_OK /\ lastReq.next = NoKey
            /\ PageNo(lastReq.key) = Len(Pages1M)

\* A stream of at least two pages has been read to its end, the last page
\* without a retry, and rows came from more than one page.
C2_Witness ==
    /\ Is1M /\ pc = "persist" /\ idx = 1
    /\ Len(Pages1M) >= 2
    /\ lastReq.gap = 0
    /\ Pages1M[1] # << >> /\ Pages1M[2] # << >>

YearsOf(n) == { YearStart(today, k) : k \in 0..(n - 1) }

Successes(sv) == { p \in DOMAIN sv : sv[p] }

Days(df) == { df[k].day : k \in 1..Len(df) }

\* The rows the running call hands to the store for the partition at path p:
\* the day's slice of the accumulated result, or the rows of the year's request.
NewRows(p) == IF Is1M THEN Slice(history_df, p.key) ELSE StreamOf([y |-> p.key])[1]

\* C4. Partition merge: once the second sync has written, with some rows, a
\* partition that the first one had left in the store, the file holds every
\* row of the new data (the new row wins) and every previously stored row
\* whose timestamp the new data does not carry, one row per timestamp.
C4_PartitionMerge ==
    (run = 2 /\ pc = "done") =>
      \A p \in Successes(saves) \cap DOMAIN prev.files :
        (NewRows(p) # << >>) =>
          /\ Range(NewRows(p)) \subseteq Range(files[p])
          /\ \A c \in Range(prev.files[p]) :
                (c.day \notin Days(NewRows(p))) => c \in Range(files[p])
          /\ Cardinality(Days(files[p])) = Len(files[p])

\* C5. A forced daily backfill with years = L fetches, and attempts to write,
\* exactly L + 1 year partitions.
C5_ForcedYearCount ==
    (IsDW /\ pc = "done" /\ result = "returned"
          /\ args.force_update /\ args.k_type = K_DAY) =>
      /\ Cardinality(fetched) = args.years.num + 1
      /\ Cardinality(DOMAIN saves) = args.years.num + 1

\* The first day of the full window, today - lookback_years, and of the short
\* one, today - default_days (update_DW_data has no default_days: 30 days).
FullStart == DateMinus(today, Round(DaysPerYear * args.years.num, args.years.den))
ShortStart == DateMinus(today, IF Is1M THEN args.default_days ELSE DefaultDays)

\* C6. Window selection, for every granularity: with force_update the sync
\* requests the full window, without it the short window, and in both cases
\* nothing older; a year-by-year sync may start at the first day of the year
\* its window starts in.
C6_WindowByForce ==
    \A s \in fetched :
      LET w == IF args.force_update THEN FullStart ELSE ShortStart
      IN  IF Is1M THEN s = w ELSE s.y >= w.y

\* The last response was a success with no rows and no further cursor.
EmptyOK == lastReq.ret = RET_OK /\ lastReq.rows = 0 /\ lastReq.next = NoKey

\* C7. Empty-window handling: after a success with zero rows and a null cursor
\* the request is not made again: update_1M_data is in (or through) its
\* persistence step, update_DW_data has attempted the year's save and moved to
\* the next year.
C7_EmptyWindowNoRetry ==
    EmptyOK =>
      /\ Is1M => (pc = "persist" \/ (pc = "done" /\ result = "returned"))
      /\ IsDW => /\ i > lastReq.iter
                 /\ pc \in {"dw_iter", "dw_req", "done"}
                 /\ Path(Tag(args.k_type), YearStart(today, lastReq.iter).y)
                       \in DOMAIN saves
                 /\ nfail = 0

\* update_1M_data over a window the remote has nothing for: the first request
\* came back empty with a null cursor and persistence is about to start.
C7_Witness ==
    /\ Is1M /\ pc = "persist" /\ idx = 1
    /\ EmptyOK /\ lastReq.first /\ lastReq.key = NoKey
    /\ Pages1M = << << >> >>
    /\ history_df = << >>

\* C8. Partition idempotence: when the second run persists the accumulated
\* result the first run persisted, every file the first run wrote is left as
\* it was, and the store as a whole is left as it was when the second run
\* writes no partition beyond those the first run wrote.
C8_PartitionIdempotent ==
    (Is1M /\ run = 2 /\ pc = "done" /\ result = "returned"
          /\ history_df = prev.history_df /\ date_range = prev.date_range) =>
      /\ \A p \in Successes(prev.saves) :
            p \in DOMAIN files /\ files[p] = prev.files[p]
      /\ (Successes(saves) \subseteq Successes(prev.saves)) => files = prev.files

\* Both runs persisted the same non-empty result and wrote the same
\* partitions, one of them with rows.
C8_Witness ==
    /\ Is1M /\ run = 2 /\ pc = "done" /\ result = "returned"
    /\ history_df = prev.history_df /\ history_df # << >>
    /\ Successes(saves) = Successes(prev.saves)
    /\ \E p \in Successes(saves) : files[p] # << >>

\* C9. Rate-limiter spacing: every request of a call but its first is made
\* when at least the minimum interval has elapsed since the request before it.
C9_RequestSpacing ==
    (lastReq.ret # None /\ ~lastReq.first) => lastReq.gap >= MinInterval

\* The day partitions of the k first days of the window.
DayPaths(k) == { Path("1M", date_range[j]) : j \in 1..k }

YearPaths(n) == { Path(Tag(args.k_type), s.y) : s \in YearsOf(n) }

\* C10. Persistence failure isolation: whatever the outcome of each save, the
\* persistence loop of update_1M_data attempts a save for every day of the
\* window, and update_DW_data fetches and attempts a save for every year of
\* its loop.
C10_SaveFailureIsolated ==
    /\ (Is1M /\ pc = "persist") => DOMAIN saves = DayPaths(idx - 1)
    /\ (Is1M /\ pc = "done" /\ result = "returned") =>
          DOMAIN saves = DayPaths(Len(date_range))
    /\ (IsDW /\ pc = "dw_iter") =>
          DOMAIN saves = YearPaths(i) /\ fetched = YearsOf(i)
    /\ (IsDW /\ pc = "done" /\ result = "returned") =>
          LET n == Iterations(args.force_update, args.years)
          IN  DOMAIN saves = YearPaths(n) /\ fetched = YearsOf(n)

\* update_1M_data has returned; the save of the first day of its window
\* failed and the save of the day after it was made and succeeded.
C10_Witness ==
    /\ Is1M /\ pc = "done" /\ result = "returned"
    /\ Len(date_range) >= 2
    /\ ~saves[Path("1M", date_range[1])]
    /\ saves[Path("1M", date_range[2])]

\* C11. Unsupported granularity: a call of update_DW_data with a k_type other
\* than daily or weekly makes no remote request, retries nothing, writes no
\* partition file, and ends at once returning False.
C11_UnsupportedFailsAtOnce ==
    (IsDW /\ ~(args.k_type \in {K_DAY, K_WEEK})) =>
      /\ pc \in {"dw_iter", "done"}
      /\ i = 0
      /\ lastReq = NoReq /\ fetched = {} /\ nfail = 0
      /\ saves = << >> /\ files = prev.files
      /\ (pc = "done") => result = "False"

\* update_DW_data was called with the minute granularity and has returned
\* False.
C11_Witness ==
    /\ IsDW /\ args.k_type = K_1M
    /\ pc = "done" /\ result = "False"
    /\ lastReq.ret = None

IsEvaluate == args.op = "cur_kline_evaluate"
IsAccountInfo == args.op = "get_account_info"

\* C12. Unlock failure is fatal: in the REAL environment a failed unlock ends
\* the call with the exception raised, no order placed and no account query
\* made, and orders or queries are only ever made after a successful unlock;
\* in the SIMULATE environment no unlock is attempted and the call goes on to
\* its trading action.
C12_UnlockFailureFatal ==
    /\ (unlock = RET_ERROR) =>
          /\ trd_env = REAL
          /\ pc = "done" /\ result = "Exception"
          /\ orders = << >> /\ queries = 0
    /\ (trd_env = REAL /\ (orders # << >> \/ queries > 0)) => unlock = RET_OK
    /\ (trd_env = SIMULATE) =>
          /\ unlock = None /\ result # "Exception"
          /\ (IsAccountInfo /\ pc = "done") => queries = 1
          /\ (IsEvaluate /\ pc = "done") => result \in {"returned", "KeyError"}

\* In the REAL environment the unlock of cur_kline_evaluate has failed, for a
\* stock list whose first symbol has a sell signal.
C12_Witness ==
    /\ IsEvaluate /\ trd_env = REAL /\ unlock = RET_ERROR
    /\ pc = "done"
    /\ Len(args.stock_list) >= 1
    /\ args.strategy_map[args.stock_list[1]].sell

\* C13. Daily / weekly pagination: the rows update_DW_data has persisted for a
\* year are the rows of every page of the year's stream, up to the page that
\* comes with the null cursor.
C13_YearPaginated ==
    IsDW =>
      \A p \in Successes(saves) : files[p] = Concat(StreamOf([y |-> p.key]))

\* C14. Year-by-year iteration: whatever today's date, turn k of the year loop
\* of update_DW_data targets calendar year (current year - k), so that the
\* years of the turns made so far are distinct and consecutive going backward.
C14_YearPerIteration ==
    IsDW =>
      /\ (pc = "dw_req") => start_date.y = today.y - i
      /\ fetched \subseteq { [y |-> today.y - k, doy |-> 1] : k \in 0..i }
      /\ (pc = "dw_iter") => Cardinality(fetched) = i

\* C15. Persistence only after the page stream is exhausted: while
\* update_1M_data is still requesting or retrying pages nothing has been saved
\* and the store is as the call found it; once a save has been made the cursor
\* is null, the last request was the successful one for the last page, and
\* every file written holds its slice of the complete accumulated result.
C15_PersistAfterExhaustion ==
    Is1M =>
      /\ (pc \in {"first", "page"}) => (saves = << >> /\ files = prev.files)
      /\ (saves # << >>) =>
            /\ pc \in {"persist", "done"}
            /\ page_req_key = NoKey
            /\ lastReq.ret = RET_OK /\ lastReq.next = NoKey
            /\ PageNo(lastReq.key) = Len(Pages1M)
            /\ history_df = Concat(Pages1M)
      /\ \A p \in Successes(saves) : files[p] = Slice(Concat(Pages1M), p.key)

\* A two-page stream whose second page has rows was read, the second page
\* after a failed attempt, and a partition with rows has been written.
C15_Witness ==
    /\ Is1M /\ pc \in {"persist", "done"}
    /\ Len(Pages1M) = 2 /\ Pages1M[2] # << >>
    /\ lastReq.gap = RetrySleep
    /\ \E p \in Successes(saves) : files[p] # << >>

\* The moves of a minute sync job between its states: PENDING ("idle", or
\* "done" of the call before) -> FETCHING ("first", "page") -> PERSISTING
\* ("persist") -> DONE ("done").
JobMoves ==
    { << "idle", "first" >>, << "done", "first" >>,
      << "first", "page" >>, << "first", "persist" >>,
      << "page", "persist" >>, << "persist", "done" >> }

\* C16. Job state machine: every step of a minute sync job that changes its
\* state is a move PENDING -> FETCHING -> PERSISTING -> DONE, and a step whose
\* request fails leaves the job fetching, with the cursor it sent; so DONE is
\* only reached through PERSISTING.
C16_JobStateMachine ==
    [][ (args'.op = "update_1M_data") =>
          /\ (pc' # pc) => << pc, pc' >> \in JobMoves
          /\ (pc \in {"first", "page"} /\ lastReq'.ret = RET_ERROR) =>
                (pc' = pc /\ page_req_key' = page_req_key) ]_vars

\* C17. Unbounded retry: in the page retry loop of update_1M_data and the year
\* retry loop of update_DW_data a failed attempt, however many failures came
\* before it, is followed by the backoff and leaves the call in the same loop
\* about to make the same request again: nothing is given up, skipped or
\* persisted on a failure.
C17_RetryWithoutCap ==
    [][ (pc \in {"page", "dw_req"} /\ lastReq'.ret = RET_ERROR) =>
          /\ pc' = pc
          /\ nfail' = nfail + 1
          /\ gap' = RetrySleep
          /\ (pc = "page") => page_req_key' = page_req_key
          /\ i' = i /\ start_date' = start_date
          /\ history_df' = history_df
          /\ saves' = saves /\ files' = files
          /\ result' = result ]_vars

\* The request of a year has failed as many times in a row as the remote
\* ever fails, each attempt after the backoff, and is about to be made again.
C17_Witness ==
    /\ IsDW /\ pc = "dw_req"
    /\ nfail = MaxFails
    /\ lastReq.ret = RET_ERROR /\ lastReq.gap = RetrySleep
    /\ gap = RetrySleep

\* The days of the window whose partition candle c is handed to.
PartitionsOf(c) == { d \in Range(date_range) : c \in Range(Slice(history_df, d)) }

\* C18. Minute-data slicing: each day partition update_1M_data has written
\* holds exactly the accumulated candles dated that day, in their order, and
\* every accumulated candle dated within the window is handed to exactly one
\* day partition, that of its own date.
C18_DaySlicing ==
    (Is1M /\ pc \in {"persist", "done"}) =>
      /\ \A p \in Successes(saves) :
            files[p] = SelectSeq(history_df, LAMBDA c : c.day = p.key)
      /\ \A c \in Range(history_df) :
            (DateLeq(start_date, c.day) /\ DateLeq(c.day, end_date)) =>
               PartitionsOf(c) = {c.day}

\* Candles of two days of the window were accumulated and each day's
\* partition was written with its own candle.
C18_Witness ==
    /\ Is1M /\ pc = "done" /\ result = "returned"
    /\ Len(date_range) >= 2 /\ Len(history_df) >= 2
    /\ \A d \in Range(date_range) :
          /\ Path("1M", d) \in Successes(saves)
          /\ Len(files[Path("1M", d)]) = 1

\* The orders the signals of the symbols of list l call for, in list order,
\* for each symbol the sell order before the buy order.
RECURSIVE SignalOrders(_, _)
SignalOrders(l, strategy_map) ==
    IF l = << >> THEN << >>
    ELSE LET stock_code == Head(l)
             sig == strategy_map[stock_code]
         IN  (IF sig.sell THEN << [side |-> "sell", code |-> stock_code] >> ELSE << >>)
             \o (IF sig.buy THEN << [side |-> "buy", code |-> stock_code] >> ELSE << >>)
             \o SignalOrders(Tail(l), strategy_map)

\* C19. Signal pass-through: once cur_kline_evaluate has ended, its unlock not
\* having failed, the orders placed are exactly those the sell and buy
\* signals of the symbols of stock_list call for, in list order, sell before
\* buy, and during the loop they are those of the symbols it is through.
C19_SignalPassThrough ==
    (IsEvaluate /\ unlock # RET_ERROR) =>
      /\ (pc = "evaluate") =>
            orders = SignalOrders(SubSeq(args.stock_list, 1, evaluated), args.strategy_map)
      /\ (pc = "done") => orders = SignalOrders(args.stock_list, args.strategy_map)

\* C20. First-page failure leaves the store unchanged: when the first,
\* null-cursor request of update_1M_data fails, the call ends with the store
\* as it found it, no save attempted, nothing accumulated, and that request
\* the only one it made.
C20_FirstPageFailureNoWrite ==
    (Is1M /\ lastReq.ret = RET_ERROR /\ lastReq.first) =>
      /\ pc = "done" /\ result = "aborted"
      /\ lastReq.key = NoKey
      /\ files = prev.files /\ saves = << >>
      /\ history_df = << >>
      /\ fetched = {start_date}
      /\ nfail = 1

\* The second minute sync has ended on a failed first request, over the store
\* the first sync had filled with a partition that has rows.
C20_Witness ==
    /\ Is1M /\ run = 2 /\ pc = "done" /\ result = "aborted"
    /\ lastReq.ret = RET_ERROR /\ lastReq.first
    /\ \E p \in DOMAIN files : files[p] # << >>

IsFilter == args.op = "get_filtered_turnover_stocks"

\* The offsets 0, 200, 400, ... below n, and offset 0 when n is 0.
RECURSIVE Offsets(_, _)
Offsets(from, n) ==
    IF from > 0 /\ from >= n THEN << >>
    ELSE << from >> \o Offsets(from + PageSize, n)

\* C21. All-or-nothing stock filter pagination: get_filtered_turnover_stocks
\* ends either with every page requested, at offsets 0, 200, 400, ... up to
\* the reported total count, and the stock codes of all pages returned in
\* page order, or, on a failed page request, with the empty list returned;
\* never with a partial list; and with every response OK or ERROR it ends.
C21_FilterAllOrNothing ==
    /\ [](IsFilter =>
            /\ (pc = "filter") =>
                  /\ requested = [k \in 1..(begin_index \div PageSize) |-> (k - 1) * PageSize]
                  /\ begin_index = 0 \/ begin_index < all_count
                  /\ output_list = [k \in 1..Min(begin_index, all_count) |-> k]
            /\ (pc = "done") =>
                  \/ /\ result = "returned"
                     /\ requested = Offsets(0, all_count)
                     /\ retval = [k \in 1..all_count |-> k]
                  \/ /\ result = "error"
                     /\ retval = << >>)
    /\ ((pc = "filter") ~> (pc = "done"))

\* Three pages were requested and the codes of all of them returned.
C21_Witness ==
    /\ IsFilter /\ pc = "done" /\ result = "returned"
    /\ Len(requested) = 3
    /\ Len(retval) = all_count /\ all_count > 2 * PageSize

====
